---------------------------- MODULE Spec2Model ----------------------------
(***************************************************************************)
(* Chunk streaming of the terrain generator: the state kept by             *)
(* ChunkedTerrain.jsx (chunk store, vegetation map, scene children,        *)
(* last-known viewer chunk) and the operations that change it              *)
(* (the effect body, the animation frame, the effect cleanup, the          *)
(* viewer's position update), the height function of Terrain.js, and      *)
(* createGrassForChunk and removeTerrainChunk run statement by statement.  *)
(*                                                                         *)
(* Encodings.  A chunk key "cx,cz" is the pair <<cx, cz>>.  A scene        *)
(* object is named by the triple <<prefix, cx, cz>>.  null is <<>> and a   *)
(* number n held in a nullable field is <<n>>.  Distances are whole        *)
(* numbers (Math.hypot rounded up), which keeps every comparison of the    *)
(* code against its whole-number thresholds exact.  Opacities are counted  *)
(* in units of 1/OPACITY_ONE.                                              *)
(***************************************************************************)
EXTENDS Integers, Sequences, FiniteSets, Bags, TLC

(* ------------------------------ constants ------------------------------ *)

CHUNK_SIZE == 100
GRASS_LOAD_DISTANCE == 140
GRASS_FADE_START == 80
TERRAIN_LOAD_DISTANCE == 300

\* targetOpacity = 1 of applyGrassFade, in opacity units
OPACITY_ONE == 600

(* ------------------------------- bounds -------------------------------- *)

\* the viewer's x ranges over the chunks -MaxChunkX .. MaxChunkX
MaxChunkX == 2

\* offsets of the viewer inside a chunk, along either axis
Offsets == {0, CHUNK_SIZE \div 2}

ViewerXs == {c * CHUNK_SIZE + o : c \in (-MaxChunkX)..MaxChunkX, o \in Offsets}

\* the viewer's z stays in the two chunks around the origin; from the first
\* value the centre of a chunk of row 0 is exactly GRASS_LOAD_DISTANCE away,
\* the last is past the middle of its chunk
ViewerZs == {(CHUNK_SIZE \div 2) - GRASS_LOAD_DISTANCE, 0, CHUNK_SIZE \div 2 + 10}

(* ------------------------------ arithmetic ----------------------------- *)

Max(a, b) == IF a >= b THEN a ELSE b

Min(a, b) == IF a <= b THEN a ELSE b

\* Math.floor(a / b) for b > 0
Floor(a, b) == a \div b

\* Math.ceil(a / b) for b > 0
Ceil(a, b) == -((-a) \div b)

RECURSIVE SqrtUp(_, _, _)
\* the least r in lo..hi with r * r >= n
SqrtUp(n, lo, hi) ==
    IF lo >= hi THEN lo
    ELSE LET mid == (lo + hi) \div 2
         IN  IF mid * mid >= n THEN SqrtUp(n, lo, mid) ELSE SqrtUp(n, mid + 1, hi)

\* Math.hypot(dx, dz), rounded up to a whole number
Hypot(dx, dz) == SqrtUp(dx * dx + dz * dz, 0, Max(dx, -dx) + Max(dz, -dz))

(* --------------------------- Terrain.js -------------------------------- *)

\* Units.  A noise value is counted in units of 1/NOISE_ONE, a biome mask in
\* units of 1/MASK_ONE, an octave amplitude in units of 1/AMP_ONE, a noise
\* argument (a coordinate times a scale) in units of 1/SCALE_ONE and a height
\* in units of 1/HEIGHT_ONE, so that every value the code computes from
\* whole coordinates and noise values of the grid is a whole number.
NOISE_ONE == 50

MASK_ONE == 2 * NOISE_ONE

AMP_ONE == 2

SCALE_ONE == 1000

\* 0.65, in units of 1/MASK_ONE
BIOME_THRESHOLD == 65

\* 0.003, in units of 1/SCALE_ONE
BIOME_SCALE == 3

MOUNTAIN_OCTAVES ==
    << [scale |-> 10, amplitude |-> 30 * AMP_ONE],
       [scale |-> 20, amplitude |-> 15 * AMP_ONE],
       [scale |-> 40, amplitude |-> 8 * AMP_ONE],
       [scale |-> 80, amplitude |-> 3 * AMP_ONE],
       [scale |-> 150, amplitude |-> 1 * AMP_ONE] >>

MOUNTAIN_BASE == 20

PLAINS_OCTAVES ==
    << [scale |-> 10, amplitude |-> 3 * AMP_ONE],
       [scale |-> 30, amplitude |-> (3 * AMP_ONE) \div 2],
       [scale |-> 60, amplitude |-> (1 * AMP_ONE) \div 2] >>

PLAINS_BASE == 1

HEIGHT_ONE == NOISE_ONE * AMP_ONE * (MASK_ONE - BIOME_THRESHOLD) * BIOME_THRESHOLD

\* the argument noise2D is called with for the coordinates (x, z) and a scale
NoiseArg(x, z, scale) == <<x * scale, z * scale>>

RECURSIVE OctaveLoop(_, _, _, _, _, _, _, _)
\* lines 35-37 and 43-45: height += noise2D(...) * amplitude * intensity for
\* the octaves from i on, the intensity being inum / iden
OctaveLoop(height, octaves, i, x, z, noise2D, inum, iden) ==
    IF i > Len(octaves) THEN height
    ELSE OctaveLoop(height
                      + noise2D[NoiseArg(x, z, octaves[i].scale)]
                          * octaves[i].amplitude * inum
                          * (HEIGHT_ONE \div (NOISE_ONE * AMP_ONE * iden)),
                    octaves, i + 1, x, z, noise2D, inum, iden)

\* getTerrainHeight with the mountain intensity biomeMask / (1 - threshold),
\* the threshold not subtracted
getTerrainHeight_MountainFromZero(x, z, noise2D) ==
    IF noise2D = <<>>
    THEN [height |-> 0, biomeMask |-> 0, isMountainous |-> FALSE]
    ELSE LET biomeMask == ((noise2D[NoiseArg(x, z, BIOME_SCALE)] + NOISE_ONE) * MASK_ONE)
                              \div (2 * NOISE_ONE)
             isMountainous == biomeMask > BIOME_THRESHOLD
             inum == IF isMountainous THEN biomeMask
                     ELSE BIOME_THRESHOLD - biomeMask
             iden == IF isMountainous THEN MASK_ONE - BIOME_THRESHOLD
                     ELSE BIOME_THRESHOLD
             octaves == IF isMountainous THEN MOUNTAIN_OCTAVES ELSE PLAINS_OCTAVES
             base == IF isMountainous THEN MOUNTAIN_BASE ELSE PLAINS_BASE
         IN  [height |-> OctaveLoop(0, octaves, 1, x, z, noise2D, inum, iden)
                           + base * inum * (HEIGHT_ONE \div iden),
              biomeMask |-> biomeMask,
              isMountainous |-> isMountainous]

\* getTerrainHeight with the mountain octaves used for both biomes
getTerrainHeight_OneTable(x, z, noise2D) ==
    IF noise2D = <<>>
    THEN [height |-> 0, biomeMask |-> 0, isMountainous |-> FALSE]
    ELSE LET biomeMask == ((noise2D[NoiseArg(x, z, BIOME_SCALE)] + NOISE_ONE) * MASK_ONE)
                              \div (2 * NOISE_ONE)
             isMountainous == biomeMask > BIOME_THRESHOLD
             inum == IF isMountainous THEN biomeMask - BIOME_THRESHOLD
                     ELSE BIOME_THRESHOLD - biomeMask
             iden == IF isMountainous THEN MASK_ONE - BIOME_THRESHOLD
                     ELSE BIOME_THRESHOLD
             base == IF isMountainous THEN MOUNTAIN_BASE ELSE PLAINS_BASE
         IN  [height |-> OctaveLoop(0, MOUNTAIN_OCTAVES, 1, x, z, noise2D, inum, iden)
                           + base * inum * (HEIGHT_ONE \div iden),
              biomeMask |-> biomeMask,
              isMountainous |-> isMountainous]

\* getTerrainHeight, lines 22-50; noise2D is a function from arguments to
\* noise values, or null
getTerrainHeight(x, z, noise2D) ==
    IF noise2D = <<>>
    THEN [height |-> 0, biomeMask |-> 0, isMountainous |-> FALSE]
    ELSE LET biomeMask == ((noise2D[NoiseArg(x, z, BIOME_SCALE)] + NOISE_ONE) * MASK_ONE)
                              \div (2 * NOISE_ONE)
             isMountainous == biomeMask > BIOME_THRESHOLD
             \* intensity = inum / iden
             inum == IF isMountainous THEN biomeMask - BIOME_THRESHOLD
                     ELSE BIOME_THRESHOLD - biomeMask
             iden == IF isMountainous THEN MASK_ONE - BIOME_THRESHOLD
                     ELSE BIOME_THRESHOLD
             octaves == IF isMountainous THEN MOUNTAIN_OCTAVES ELSE PLAINS_OCTAVES
             base == IF isMountainous THEN MOUNTAIN_BASE ELSE PLAINS_BASE
         IN  [height |-> OctaveLoop(0, octaves, 1, x, z, noise2D, inum, iden)
                           + base * inum * (HEIGHT_ONE \div iden),
              biomeMask |-> biomeMask,
              isMountainous |-> isMountainous]

(* ---------------------------- noise sources ---------------------------- *)

\* Math.random() = 1, in units of 1/RANDOM_ONE; the draws are below it
RANDOM_ONE == 100

\* the values Math.random() is let return: the least and the greatest
RandomDraws == {0, RANDOM_ONE - 1}

\* (Math.random() - 0.5) * CHUNK_SIZE of lines 197-198 for the draw r
SampleOffset(r) == ((2 * r - RANDOM_ONE) * CHUNK_SIZE) \div (2 * RANDOM_ONE)

\* the chunk whose vegetation is placed sample by sample: it is in the
\* keep-set of the viewer at the origin and too far from it for vegetation
GrassKeys == {<<-2, 0>>}

\* the positions the placement can sample
GrassPoints ==
    {<<k[1] * CHUNK_SIZE + SampleOffset(rx), k[2] * CHUNK_SIZE + SampleOffset(rz)>> :
        k \in GrassKeys, rx \in RandomDraws, rz \in RandomDraws}

Scales ==
    {BIOME_SCALE} \cup {MOUNTAIN_OCTAVES[i].scale : i \in DOMAIN MOUNTAIN_OCTAVES}
                  \cup {PLAINS_OCTAVES[i].scale : i \in DOMAIN PLAINS_OCTAVES}

\* the arguments getTerrainHeight passes to noise2D at the point p
ArgsOf(p) == {NoiseArg(p[1], p[2], sc) : sc \in Scales}

GrassArgs == UNION {ArgsOf(p) : p \in GrassPoints}

\* noise -1 everywhere: plains of height -4, below minRockHeight
ValleyNoise == [a \in GrassArgs |-> -NOISE_ONE]

\* noise 1 everywhere: mountains of height 77, above minRockHeight
PeakNoise == [a \in GrassArgs |-> NOISE_ONE]

\* mountains where z >= 0 and plains where z < 0
RidgeNoise == [a \in GrassArgs |-> IF a[2] >= 0 THEN NOISE_ONE ELSE -NOISE_ONE]

\* the greatest z a sample can have in the chunks of GrassKeys
LedgeZ == SampleOffset(RANDOM_ONE - 1)

\* plains where z < 0; where z = LedgeZ, biomeMask 0.72 (intensity 0.2) over
\* the octave sum 8 + 3 - 1 and the base 20: height 6.0, exactly minRockHeight
LedgeNoise ==
    [a \in GrassArgs |->
        IF a[2] = LedgeZ * BIOME_SCALE
        THEN BIOME_THRESHOLD + (MASK_ONE - BIOME_THRESHOLD) \div 5 - NOISE_ONE
        ELSE IF a[2] \in {LedgeZ * MOUNTAIN_OCTAVES[3].scale,
                          LedgeZ * MOUNTAIN_OCTAVES[4].scale} THEN NOISE_ONE
        ELSE IF a[2] = LedgeZ * MOUNTAIN_OCTAVES[5].scale THEN -NOISE_ONE
        ELSE IF a[2] \in {LedgeZ * MOUNTAIN_OCTAVES[1].scale,
                          LedgeZ * MOUNTAIN_OCTAVES[2].scale} THEN 0
        ELSE -NOISE_ONE]

GrassNoises == {ValleyNoise, PeakNoise, RidgeNoise, LedgeNoise}

(* ------------------------------- state --------------------------------- *)

VARIABLES
    playerPosition,     \* the viewer's position object, [x, z]
    chunks,             \* chunksRef.current: key -> chunk data
    grassMeshes,        \* grassMeshesRef.current: key -> vegetation data
    lastPlayerChunk,    \* lastPlayerChunkRef.current
    scene,              \* children of the scene: a bag of object names
    gpu,                \* disposable resources: the per-chunk ones created and
                        \* not yet disposed (counts), and the vegetation's
                        \* shared geometry, material and textures
                        \* ("none" | "live" | "disposed")
    effect,             \* "none" | "active" | "cleaned" | "crashed"
    frame,              \* TRUE while an animation frame is requested
    failedBuild,        \* the key whose build threw in the last call of
                        \* updateChunks (history), or NULL
    probe,              \* the input, locals and result of a function that
                        \* is run on its own, or NULL
    noise2D,            \* the noise2D prop: a function from arguments to
                        \* noise values, or NULL
    uniformsReady,      \* the calls of the onMaterialUniformsReady prop:
                        \* how often, and the uniforms of the last call
    last                \* what the last operation did (history)

vars == <<playerPosition, chunks, grassMeshes, lastPlayerChunk, scene, gpu,
          effect, frame, failedBuild, probe, noise2D, uniformsReady, last>>

\* The part of the state the chunk functions work on.
World == [chunks |-> chunks, grassMeshes |-> grassMeshes, scene |-> scene,
          gpu |-> gpu]

NULL == <<>>

Key(chunkX, chunkZ) == <<chunkX, chunkZ>>

TerrainName(key) == <<"terrainChunk", key[1], key[2]>>

GrassName(key) == <<"grassChunk", key[1], key[2]>>

Put(f, k, v) == (k :> v) @@ f

Drop(f, k) == [x \in DOMAIN f \ {k} |-> f[x]] @@ <<>>

SceneAdd(s, name) == s (+) SetToBag({name})

SceneRemove(s, name) == s (-) SetToBag({name})

(* --------------------------- chunk functions --------------------------- *)

getChunkWorldPos(chunkX, chunkZ) ==
    [x |-> chunkX * CHUNK_SIZE, z |-> chunkZ * CHUNK_SIZE]

\* createTerrainChunk without the check of line 81
createTerrainChunk_NoGuard(w, chunkX, chunkZ) ==
    LET key == Key(chunkX, chunkZ)
    IN  [w EXCEPT
            !.gpu.geometries = @ + 1,
            !.scene = SceneAdd(@, TerrainName(key)),
            !.chunks = Put(@, key,
                [mesh |-> TerrainName(key), chunkX |-> chunkX,
                 chunkZ |-> chunkZ,
                 worldPos |-> [x |-> chunkX * CHUNK_SIZE, z |-> chunkZ * CHUNK_SIZE],
                 hasGrass |-> FALSE])]

\* createTerrainChunk with the two coordinates of the name of line 103 in
\* the other order
createTerrainChunk_SwappedName(w, chunkX, chunkZ) ==
    LET key == Key(chunkX, chunkZ)
    IN  IF key \in DOMAIN w.chunks THEN w
        ELSE [w EXCEPT
                !.gpu.geometries = @ + 1,
                !.scene = SceneAdd(@, TerrainName(Key(chunkZ, chunkX))),
                !.chunks = Put(@, key,
                    [mesh |-> TerrainName(Key(chunkZ, chunkX)), chunkX |-> chunkX,
                     chunkZ |-> chunkZ,
                     worldPos |-> getChunkWorldPos(chunkX, chunkZ),
                     hasGrass |-> FALSE])]

createTerrainChunk(w, chunkX, chunkZ) ==
    LET key == Key(chunkX, chunkZ)
    IN  IF key \in DOMAIN w.chunks THEN w
        ELSE [w EXCEPT
                !.gpu.geometries = @ + 1,
                !.scene = SceneAdd(@, TerrainName(key)),
                !.chunks = Put(@, key,
                    [mesh |-> TerrainName(key), chunkX |-> chunkX,
                     chunkZ |-> chunkZ,
                     worldPos |-> getChunkWorldPos(chunkX, chunkZ),
                     hasGrass |-> FALSE])]

getChunkCenterDistance(chunk, playerX, playerZ) ==
    LET centerX == chunk.worldPos.x + (CHUNK_SIZE \div 2)
        centerZ == chunk.worldPos.z + (CHUNK_SIZE \div 2)
    IN  Hypot(centerX - playerX, centerZ - playerZ)

\* targetOpacity with the progress taken over the load distance instead of
\* the fade range
targetOpacity_WrongRange(distance) ==
    LET progress == distance - GRASS_FADE_START
        faded == IF distance > GRASS_FADE_START
                 THEN OPACITY_ONE
                      - (Min(Max(progress, 0), GRASS_LOAD_DISTANCE) * OPACITY_ONE)
                            \div GRASS_LOAD_DISTANCE
                 ELSE OPACITY_ONE
    IN  Max(0, Min(OPACITY_ONE, faded))

\* lines 129-137 of applyGrassFade: the opacity for a distance
targetOpacity(distance) ==
    LET fadeRange == Max(1, GRASS_LOAD_DISTANCE - GRASS_FADE_START)
        \* progress, in units of 1/fadeRange
        progress == distance - GRASS_FADE_START
        faded == IF distance > GRASS_FADE_START
                 THEN OPACITY_ONE
                      - (Min(Max(progress, 0), fadeRange) * OPACITY_ONE) \div fadeRange
                 ELSE OPACITY_ONE
    IN  Max(0, Min(OPACITY_ONE, faded))

\* applyGrassFade without the group.visible assignment of line 140
applyGrassFade_KeepsVisible(w, key, playerX, playerZ) ==
    IF key \notin DOMAIN w.grassMeshes THEN w
    ELSE LET distance == getChunkCenterDistance(w.chunks[key], playerX, playerZ)
             opacity == targetOpacity(distance)
         IN  [w EXCEPT !.grassMeshes[key].opacity = opacity]

applyGrassFade(w, key, playerX, playerZ) ==
    IF key \notin DOMAIN w.grassMeshes THEN w
    ELSE LET distance == getChunkCenterDistance(w.chunks[key], playerX, playerZ)
             opacity == targetOpacity(distance)
         IN  [w EXCEPT !.grassMeshes[key].opacity = opacity,
                       !.grassMeshes[key].visible = (opacity * 100 > 5 * OPACITY_ONE)]

createGrassForChunk(w, chunkX, chunkZ) ==
    LET key == Key(chunkX, chunkZ)
    IN  IF key \notin DOMAIN w.chunks \/ w.chunks[key].hasGrass THEN w
        ELSE [w EXCEPT
                \* lines 152-175: a ref that holds an object, disposed or
                \* not, is not created again
                !.gpu.grassGeometry = IF @ = "none" THEN "live" ELSE @,
                !.gpu.grassTextures =
                    IF w.gpu.grassMaterial = "none" /\ ~w.gpu.grassTexturesInRef
                    THEN "live" ELSE @,
                !.gpu.grassTexturesInRef =
                    IF w.gpu.grassMaterial = "none" THEN TRUE ELSE @,
                !.gpu.grassMaterial = IF @ = "none" THEN "live" ELSE @,
                !.gpu.instanced = @ + 2,
                !.gpu.materials = @ + 1,
                !.scene = SceneAdd(@, GrassName(key)),
                !.grassMeshes = Put(@, key,
                    [group |-> GrassName(key), opacity |-> 0, visible |-> TRUE]),
                !.chunks[key].hasGrass = TRUE]

\* removeGrassFromChunk without the material.dispose() of line 250
removeGrassFromChunk_KeepsMaterial(w, chunkX, chunkZ) ==
    LET key == Key(chunkX, chunkZ)
    IN  IF key \notin DOMAIN w.chunks \/ ~w.chunks[key].hasGrass THEN w
        ELSE IF key \notin DOMAIN w.grassMeshes THEN w
        ELSE [w EXCEPT
                !.gpu.instanced = @ - 2,
                !.scene = SceneRemove(@, w.grassMeshes[key].group),
                !.grassMeshes = Drop(@, key),
                !.chunks[key].hasGrass = FALSE]

removeGrassFromChunk(w, chunkX, chunkZ) ==
    LET key == Key(chunkX, chunkZ)
    IN  IF key \notin DOMAIN w.chunks \/ ~w.chunks[key].hasGrass THEN w
        ELSE IF key \notin DOMAIN w.grassMeshes THEN w
        ELSE [w EXCEPT
                !.gpu.instanced = @ - 2,
                !.gpu.materials = @ - 1,
                !.scene = SceneRemove(@, w.grassMeshes[key].group),
                !.grassMeshes = Drop(@, key),
                !.chunks[key].hasGrass = FALSE]

\* removeTerrainChunk without the removeGrassFromChunk of line 264
removeTerrainChunk_LeavesGrass(w, chunkX, chunkZ) ==
    LET key == Key(chunkX, chunkZ)
    IN  IF key \notin DOMAIN w.chunks THEN w
        ELSE [w EXCEPT
                !.gpu.geometries = @ - 1,
                !.scene = SceneRemove(@, w.chunks[key].mesh),
                !.chunks = Drop(@, key)]

removeTerrainChunk(w, chunkX, chunkZ) ==
    LET key == Key(chunkX, chunkZ)
    IN  IF key \notin DOMAIN w.chunks THEN w
        ELSE LET g == removeGrassFromChunk(w, chunkX, chunkZ)
             IN  [g EXCEPT
                    !.gpu.geometries = @ - 1,
                    !.scene = SceneRemove(@, g.chunks[key].mesh),
                    !.chunks = Drop(@, key)]

(* ----------------------------- updateChunks ---------------------------- *)

loadRadius == Ceil(TERRAIN_LOAD_DISTANCE, CHUNK_SIZE)

\* The keys visited by the dx, dz loops, in the order of the visit.
KeepSeq(playerChunkX, playerChunkZ) ==
    LET side == 2 * loadRadius + 1
    IN  [i \in 1..(side * side) |->
            Key((playerChunkX - loadRadius) + ((i - 1) \div side),
                (playerChunkZ - loadRadius) + ((i - 1) % side))]

chunksToKeep(playerChunkX, playerChunkZ) ==
    LET seq == KeepSeq(playerChunkX, playerChunkZ)
    IN  {seq[i] : i \in DOMAIN seq}

\* TRUE of every world; asking it makes the world of one loop iteration a
\* value before the next iteration starts.
Done(w) == w.gpu.geometries >= 0

\* createTerrainChunk(key) throws: the chunk does not exist yet and its
\* geometry (line 84) cannot be built.  throwAt is the key whose geometry
\* cannot be built, NULL when every geometry can.
Throws(w, key, throwAt) == key = throwAt /\ key \notin DOMAIN w.chunks

RECURSIVE CreateLoop(_, _, _, _)
\* lines 289-301: create the chunks of seq[i..] that do not exist, up to the
\* one whose creation throws
CreateLoop(w, seq, i, throwAt) ==
    IF i > Len(seq) THEN w
    ELSE IF Throws(w, seq[i], throwAt) THEN w
    ELSE LET step == IF seq[i] \notin DOMAIN w.chunks
                     THEN createTerrainChunk(w, seq[i][1], seq[i][2])
                     ELSE w
         IN  IF Done(step) THEN CreateLoop(step, seq, i + 1, throwAt) ELSE step

RECURSIVE RemoveLoop(_, _)
\* line 310: removeTerrainChunk for each key of the set
RemoveLoop(w, keys) ==
    IF keys = {} THEN w
    ELSE LET k == CHOOSE x \in keys : TRUE
             step == removeTerrainChunk(w, k[1], k[2])
         IN  IF Done(step) THEN RemoveLoop(step, keys \ {k}) ELSE step

\* lines 314-328: the vegetation of one stored chunk
UpdateGrass(w, key, playerX, playerZ) ==
    LET chunk == w.chunks[key]
        chunkDistance == getChunkCenterDistance(chunk, playerX, playerZ)
        loaded == IF chunkDistance <= GRASS_LOAD_DISTANCE
                  THEN IF ~chunk.hasGrass
                       THEN createGrassForChunk(w, chunk.chunkX, chunk.chunkZ)
                       ELSE w
                  ELSE IF chunk.hasGrass
                       THEN removeGrassFromChunk(w, chunk.chunkX, chunk.chunkZ)
                       ELSE w
    IN  IF loaded.chunks[key].hasGrass
        THEN applyGrassFade(loaded, key, playerX, playerZ)
        ELSE loaded

RECURSIVE GrassLoop(_, _, _, _)
\* lines 313-329: chunksRef.current.forEach
GrassLoop(w, keys, playerX, playerZ) ==
    IF keys = {} THEN w
    ELSE LET k == CHOOSE x \in keys : TRUE
             step == UpdateGrass(w, k, playerX, playerZ)
         IN  IF Done(step) THEN GrassLoop(step, keys \ {k}, playerX, playerZ)
             ELSE step

\* playerChunkOf with the division rounded towards zero
playerChunkOf_Truncated(playerX, playerZ) ==
    [x |-> IF playerX >= 0 THEN playerX \div CHUNK_SIZE
                           ELSE -((-playerX) \div CHUNK_SIZE),
     z |-> IF playerZ >= 0 THEN playerZ \div CHUNK_SIZE
                           ELSE -((-playerZ) \div CHUNK_SIZE)]

playerChunkOf(playerX, playerZ) ==
    [x |-> Floor(playerX, CHUNK_SIZE), z |-> Floor(playerZ, CHUNK_SIZE)]

\* lines 278-281: the viewer is in the chunk recorded by the last call
SameChunk(lastChunk, playerX, playerZ) ==
    /\ lastChunk.x = <<playerChunkOf(playerX, playerZ).x>>
    /\ lastChunk.z = <<playerChunkOf(playerX, playerZ).z>>

\* the call updateChunks(playerX, playerZ) ends by an exception of
\* createTerrainChunk
UpdateThrows(w, lastChunk, playerX, playerZ, throwAt) ==
    /\ ~SameChunk(lastChunk, playerX, playerZ)
    /\ throwAt \in chunksToKeep(playerChunkOf(playerX, playerZ).x,
                                playerChunkOf(playerX, playerZ).z)
    /\ throwAt \notin DOMAIN w.chunks

\* Restream with the exception of createTerrainChunk caught after the
\* creation loop: the removals and the vegetation follow all the same
Restream_Swallows(w, playerX, playerZ, throwAt) ==
    LET pc == playerChunkOf(playerX, playerZ)
        created == CreateLoop(w, KeepSeq(pc.x, pc.z), 1, throwAt)
        chunksToRemove == DOMAIN created.chunks \ chunksToKeep(pc.x, pc.z)
        removed == RemoveLoop(created, chunksToRemove)
    IN  GrassLoop(removed, DOMAIN removed.chunks, playerX, playerZ)

\* lines 283-329: the world after a call that found the viewer in a new chunk
Restream(w, playerX, playerZ, throwAt) ==
    LET pc == playerChunkOf(playerX, playerZ)
        created == CreateLoop(w, KeepSeq(pc.x, pc.z), 1, throwAt)
        chunksToRemove == DOMAIN created.chunks \ chunksToKeep(pc.x, pc.z)
        removed == RemoveLoop(created, chunksToRemove)
    IN  IF throwAt \in chunksToKeep(pc.x, pc.z) /\ throwAt \notin DOMAIN w.chunks
        THEN created
        ELSE GrassLoop(removed, DOMAIN removed.chunks, playerX, playerZ)

\* updateChunks without the early return of lines 278-281
updateChunks_NoSkip(w, lastChunk, playerX, playerZ, throwAt) ==
    Restream(w, playerX, playerZ, throwAt)

\* the world after updateChunks(playerX, playerZ)
updateChunks(w, lastChunk, playerX, playerZ, throwAt) ==
    IF SameChunk(lastChunk, playerX, playerZ) THEN w
    ELSE Restream(w, playerX, playerZ, throwAt)

\* lastPlayerChunkRef.current after updateChunks(playerX, playerZ): line 283
\* runs before any chunk is created
NextLastChunk(lastChunk, playerX, playerZ) ==
    IF SameChunk(lastChunk, playerX, playerZ) THEN lastChunk
    ELSE [x |-> <<playerChunkOf(playerX, playerZ).x>>,
          z |-> <<playerChunkOf(playerX, playerZ).z>>]

\* what an operation that took world w to world after did
Outcome(op, w, after, skipped, key, failed) ==
    [op |-> op,
     skipped |-> skipped,
     key |-> key,
     failed |-> failed,
     created |-> DOMAIN after.chunks \ DOMAIN w.chunks,
     removed |-> DOMAIN w.chunks \ DOMAIN after.chunks,
     grassCreated |-> DOMAIN after.grassMeshes \ DOMAIN w.grassMeshes,
     grassRemoved |-> DOMAIN w.grassMeshes \ DOMAIN after.grassMeshes]

NoOutcome(op) == Outcome(op, World, World, FALSE, NULL, NULL)

SetWorld(w) ==
    /\ chunks' = w.chunks
    /\ grassMeshes' = w.grassMeshes
    /\ scene' = w.scene
    /\ gpu' = w.gpu

(* ------------------------------- actions ------------------------------- *)

\* The refs of lines 15-21 and an empty scene, before the effect has run.
InitStreamer ==
    /\ playerPosition = [x |-> 0, z |-> 0]
    /\ chunks = <<>>
    /\ grassMeshes = <<>>
    /\ lastPlayerChunk = [x |-> NULL, z |-> NULL]
    /\ scene = EmptyBag
    /\ gpu = [geometries |-> 0, instanced |-> 0, materials |-> 0,
              grassGeometry |-> "none", grassMaterial |-> "none",
              grassTextures |-> "none", grassTexturesInRef |-> FALSE]
    /\ uniformsReady = [invoked |-> "never", uniforms |-> {}]
    /\ effect = "none"
    /\ frame = FALSE
    /\ failedBuild = NULL
    /\ last = NoOutcome("init")

\* App renders ChunkedTerrain once its noise source exists (README.md, line
\* 197); which source it is does not matter to the streaming.
Init == InitStreamer /\ probe = NULL /\ noise2D = ValleyNoise

\* The viewer's next position along one axis: the neighbour of v in vals.
Neighbours(v, vals) ==
    {n \in vals : n # v /\ ~\E m \in vals : (v < m /\ m < n) \/ (n < m /\ m < v)}

\* App's handlePlayerPositionUpdate: playerPositionRef.current.copy(pos).
\* While the effect is active with no frame requested nothing reads the
\* position before the cleanup, so the moves of that time are taken after it.
MovePlayer ==
    /\ effect # "crashed"
    /\ effect = "active" => frame
    /\ \E p \in ({[x |-> n, z |-> playerPosition.z] :
                    n \in Neighbours(playerPosition.x, ViewerXs)}
                 \cup {[x |-> playerPosition.x, z |-> n] :
                    n \in Neighbours(playerPosition.z, ViewerZs)}) :
          playerPosition' = p
    /\ last' = NoOutcome("move")
    /\ UNCHANGED <<chunks, grassMeshes, lastPlayerChunk, scene, gpu, effect,
                   frame, failedBuild, probe, noise2D, uniformsReady>>

\* lines 47-58: the names of the material uniforms
MaterialUniforms ==
    {"grassTexture", "rockDiffuseTexture", "rockDisplacementMap", "minRockHeight",
     "maxRockHeight", "displacementScale", "grassRoughness", "rockRoughness",
     "uCameraPosition"}

\* line 60: onMaterialUniformsReady(materialUniforms)
NotifyUniformsReady(u) ==
    [invoked |-> IF u.invoked = "never" THEN "once" ELSE "again",
     uniforms |-> MaterialUniforms]

\* lines 27-45: texturesRef.current is a new set of textures, the
\* vegetation's not among them
EffectSetup(w) == [w EXCEPT !.gpu.grassTexturesInRef = FALSE]

\* updateChunks(playerPosition.x, playerPosition.z), called by op, with
\* throwAt the key whose geometry cannot be built (NULL: none)
CallUpdateChunks(op, throwAt) ==
    /\ \E after \in {updateChunks(IF op = "effect" THEN EffectSetup(World) ELSE World,
                                  lastPlayerChunk, playerPosition.x,
                                  playerPosition.z, throwAt)} :
           /\ SetWorld(after)
           /\ last' = Outcome(op, World, after,
                        SameChunk(lastPlayerChunk, playerPosition.x, playerPosition.z),
                        NULL, throwAt)
           /\ failedBuild' = throwAt
    /\ lastPlayerChunk' = NextLastChunk(lastPlayerChunk, playerPosition.x, playerPosition.z)

\* The effect body, lines 23-353: initial chunk generation, then the first
\* requestAnimationFrame.
RunEffect ==
    /\ effect \in {"none", "cleaned"}
    /\ noise2D # NULL
    /\ uniformsReady' = NotifyUniformsReady(uniformsReady)
    /\ CallUpdateChunks("effect", NULL)
    /\ effect' = "active"
    /\ frame' = TRUE
    /\ UNCHANGED <<playerPosition, probe, noise2D>>

\* animate, lines 346-352
Animate ==
    /\ frame
    /\ CallUpdateChunks("animate", NULL)
    /\ frame' = TRUE
    /\ UNCHANGED <<playerPosition, effect, probe, noise2D, uniformsReady>>

\* lines 366-379: the textures of texturesRef and the shared vegetation
\* geometry and material are disposed; the refs keep pointing at them
DisposeShared(w) ==
    [w EXCEPT !.gpu.grassTextures = IF w.gpu.grassTexturesInRef THEN "disposed" ELSE @,
              !.gpu.grassGeometry = IF @ = "none" THEN @ ELSE "disposed",
              !.gpu.grassMaterial = IF @ = "none" THEN @ ELSE "disposed"]

\* The cleanup without the cancelAnimationFrame of line 357.
Cleanup_NoCancel ==
    /\ effect = "active"
    /\ \E w \in {RemoveLoop(World, DOMAIN chunks)} :
         \E after \in {DisposeShared([w EXCEPT !.chunks = <<>>, !.grassMeshes = <<>>])} :
           /\ SetWorld(after)
           /\ last' = Outcome("cleanup", World, after, FALSE, NULL, NULL)
    /\ effect' = "cleaned"
    /\ frame' = frame
    /\ UNCHANGED <<playerPosition, lastPlayerChunk, failedBuild, probe, noise2D, uniformsReady>>

\* The effect's cleanup, lines 356-384.
Cleanup ==
    /\ effect = "active"
    /\ \E w \in {RemoveLoop(World, DOMAIN chunks)} :
         \E after \in {DisposeShared([w EXCEPT !.chunks = <<>>, !.grassMeshes = <<>>])} :
           /\ SetWorld(after)
           /\ last' = Outcome("cleanup", World, after, FALSE, NULL, NULL)
    /\ effect' = "cleaned"
    /\ frame' = FALSE
    /\ UNCHANGED <<playerPosition, lastPlayerChunk, failedBuild, probe, noise2D, uniformsReady>>

Next == MovePlayer \/ RunEffect \/ Animate \/ Cleanup

Spec == Init /\ [][Next]_vars

(* ----------------------- a geometry that cannot be built --------------- *)

\* The keys at which a build is let fail: the first, the middle and the last
\* key of the visit around the viewer's chunk.
FailKeys ==
    LET pc == playerChunkOf(playerPosition.x, playerPosition.z)
    IN  {Key(pc.x - loadRadius, pc.z - loadRadius), Key(pc.x, pc.z),
         Key(pc.x + loadRadius, pc.z + loadRadius)}

\* animate when createTerrainChunk throws: the exception leaves animate
\* before line 351 requests the next frame.
AnimateThrows ==
    /\ frame
    /\ \E throwAt \in FailKeys :
          /\ UpdateThrows(World, lastPlayerChunk, playerPosition.x,
                          playerPosition.z, throwAt)
          /\ CallUpdateChunks("animate", throwAt)
    /\ frame' = FALSE
    /\ UNCHANGED <<playerPosition, effect, probe, noise2D, uniformsReady>>

\* The effect body when createTerrainChunk throws in the initial chunk
\* generation: the exception leaves the effect before line 353 requests a
\* frame and before the cleanup is returned.
RunEffectThrows ==
    /\ effect \in {"none", "cleaned"}
    /\ noise2D # NULL
    /\ \E throwAt \in FailKeys :
          /\ UpdateThrows(World, lastPlayerChunk, playerPosition.x,
                          playerPosition.z, throwAt)
          /\ CallUpdateChunks("effect", throwAt)
    /\ uniformsReady' = NotifyUniformsReady(uniformsReady)
    /\ effect' = "crashed"
    /\ frame' = FALSE
    /\ UNCHANGED <<playerPosition, probe, noise2D>>

NextFail == Next \/ AnimateThrows \/ RunEffectThrows

SpecFail == Init /\ [][NextFail]_vars

(* --------------------- the chunk functions on their own ---------------- *)

\* the keys the chunk functions are called with: the viewer's chunk (with
\* vegetation), its neighbour (without) and a key outside the keep-set
CallKeys == {Key(0, 0), Key(1, 0), Key(loadRadius + 1, 0)}

CallChunkFunction(op, after, key) ==
    /\ SetWorld(after)
    /\ last' = Outcome(op, World, after, FALSE, key, NULL)
    /\ UNCHANGED <<playerPosition, lastPlayerChunk, effect, frame, failedBuild, probe, noise2D, uniformsReady>>

CallCreateTerrainChunk ==
    \E key \in CallKeys :
        CallChunkFunction("createTerrainChunk",
                          createTerrainChunk(World, key[1], key[2]), key)

CallRemoveTerrainChunk ==
    \E key \in CallKeys :
        CallChunkFunction("removeTerrainChunk",
                          removeTerrainChunk(World, key[1], key[2]), key)

CallCreateGrassForChunk ==
    \E key \in CallKeys :
        CallChunkFunction("createGrassForChunk",
                          createGrassForChunk(World, key[1], key[2]), key)

CallRemoveGrassFromChunk ==
    \E key \in CallKeys :
        CallChunkFunction("removeGrassFromChunk",
                          removeGrassFromChunk(World, key[1], key[2]), key)

NextCalls ==
    \/ RunEffect \/ Animate \/ Cleanup
    \/ CallCreateTerrainChunk \/ CallRemoveTerrainChunk
    \/ CallCreateGrassForChunk \/ CallRemoveGrassFromChunk

SpecCalls == Init /\ [][NextCalls]_vars

(* ----------------- vegetation placement, sample by sample -------------- *)

\* grassCount of line 181; the source places 25000 instances per chunk, the
\* placement is run with a small count
grassCount == 2

\* line 195
maxAttempts == grassCount * 15

\* materialUniforms.minRockHeight.value, line 52
minRockHeight == 6

\* the draw behind the height jitter of line 202 (no offset)
JitterDraws == {RANDOM_ONE \div 2}

\* matrix.compose(pos, quaternion of rot, scl): what an instance matrix holds.
\* y is in units of 1/HEIGHT_ONE, yaw in units of a turn / RANDOM_ONE, scale
\* in units of 1/(10 * RANDOM_ONE)
Compose(x, y, z, yaw, scale) == [x |-> x, y |-> y, z |-> z, yaw |-> yaw, scale |-> scale]

\* lines 201-215 with the test of line 201 accepting a height of exactly
\* minRockHeight
PlaceSample_AtMost(p, x, z, rj, ry, rs) ==
    LET terrainData == getTerrainHeight(x, z, noise2D)
        y == terrainData.height + ((2 * rj - RANDOM_ONE) * HEIGHT_ONE) \div (20 * RANDOM_ONE)
        yaw == ry
        scale == 7 * RANDOM_ONE + 6 * rs
    IN  IF terrainData.height <= minRockHeight * HEIGHT_ONE
        THEN [p EXCEPT
                !.mesh1 = Put(@, p.placed, Compose(x, y, z, yaw, scale)),
                !.mesh2 = Put(@, p.placed,
                              Compose(x, y, z, yaw + RANDOM_ONE \div 4, scale)),
                !.placed = @ + 1]
        ELSE p

\* lines 201-215 with the second matrix stored without the quarter turn of
\* line 210
PlaceSample_NoTurn(p, x, z, rj, ry, rs) ==
    LET terrainData == getTerrainHeight(x, z, noise2D)
        y == terrainData.height + ((2 * rj - RANDOM_ONE) * HEIGHT_ONE) \div (20 * RANDOM_ONE)
        yaw == ry
        scale == 7 * RANDOM_ONE + 6 * rs
    IN  IF terrainData.height < minRockHeight * HEIGHT_ONE
        THEN [p EXCEPT
                !.mesh1 = Put(@, p.placed, Compose(x, y, z, yaw, scale)),
                !.mesh2 = Put(@, p.placed, Compose(x, y, z, yaw, scale)),
                !.placed = @ + 1]
        ELSE p

\* lines 199-215: the sample (x, z) with the draws rj (height jitter), ry
\* (yaw) and rs (scale), in the placement p
PlaceSample(p, x, z, rj, ry, rs) ==
    LET terrainData == getTerrainHeight(x, z, noise2D)
        y == terrainData.height + ((2 * rj - RANDOM_ONE) * HEIGHT_ONE) \div (20 * RANDOM_ONE)
        yaw == ry
        scale == 7 * RANDOM_ONE + 6 * rs
    IN  IF terrainData.height < minRockHeight * HEIGHT_ONE
        THEN [p EXCEPT
                !.mesh1 = Put(@, p.placed, Compose(x, y, z, yaw, scale)),
                !.mesh2 = Put(@, p.placed,
                              Compose(x, y, z, yaw + RANDOM_ONE \div 4, scale)),
                !.placed = @ + 1]
        ELSE p

\* the loop condition of line 196 with the attempts not bounded
LoopRuns_Unbounded(p) == p.placed < grassCount

\* the loop condition of line 196
LoopRuns(p) == p.i < maxAttempts /\ p.placed < grassCount

\* createGrassForChunk, lines 144-193: the guard, and the two instanced
\* meshes of grassCount instances each before the first attempt
BeginGrass ==
    /\ IF probe = NULL THEN TRUE ELSE probe.done
    /\ \E key \in GrassKeys :
          /\ key \in DOMAIN chunks /\ ~chunks[key].hasGrass
          /\ probe' = [op |-> "createGrassForChunk", chunkX |-> key[1],
                       chunkZ |-> key[2], i |-> 0, placed |-> 0,
                       mesh1 |-> <<>>, mesh2 |-> <<>>,
                       count1 |-> grassCount, count2 |-> grassCount,
                       sample |-> NULL, done |-> FALSE]
    /\ last' = NoOutcome("beginGrass")
    /\ UNCHANGED <<playerPosition, chunks, grassMeshes, lastPlayerChunk, scene,
                   gpu, effect, frame, failedBuild, noise2D, uniformsReady>>

\* One turn of the loop of lines 196-216.
PlaceAttempt ==
    /\ IF probe = NULL THEN FALSE ELSE ~probe.done
    /\ LoopRuns(probe)
    /\ \E rx \in RandomDraws, rz \in RandomDraws, rj \in JitterDraws,
          ry \in RandomDraws, rs \in RandomDraws :
          LET worldPos == chunks[Key(probe.chunkX, probe.chunkZ)].worldPos
              x == worldPos.x + SampleOffset(rx)
              z == worldPos.z + SampleOffset(rz)
              \* the draws of lines 202-204 are made for accepted samples only
              accepted == PlaceSample(probe, x, z, rj, ry, rs)
              rejected == PlaceSample(probe, x, z, RANDOM_ONE \div 2, 0, 0)
              placed == IF accepted.placed > probe.placed THEN accepted ELSE rejected
          IN  probe' = [placed EXCEPT !.i = @ + 1, !.sample = <<x, z>>]
    /\ last' = NoOutcome("placeAttempt")
    /\ UNCHANGED <<playerPosition, chunks, grassMeshes, lastPlayerChunk, scene,
                   gpu, effect, frame, failedBuild, noise2D, uniformsReady>>

\* Lines 218-238, after the loop: the instance counts, the group added to the
\* scene, the vegetation entry.
FinishGrass ==
    /\ IF probe = NULL THEN FALSE ELSE ~probe.done
    /\ ~LoopRuns(probe)
    /\ probe' = [probe EXCEPT
                   !.count1 = IF probe.placed < grassCount THEN probe.placed ELSE @,
                   !.count2 = IF probe.placed < grassCount THEN probe.placed ELSE @,
                   !.done = TRUE]
    /\ \E after \in {createGrassForChunk(World, probe.chunkX, probe.chunkZ)} :
          /\ SetWorld(after)
          /\ last' = Outcome("createGrassForChunk", World, after, FALSE,
                             Key(probe.chunkX, probe.chunkZ), NULL)
    /\ UNCHANGED <<playerPosition, lastPlayerChunk, effect, frame, failedBuild,
                   noise2D, uniformsReady>>

InitGrass == InitStreamer /\ probe = NULL /\ noise2D \in GrassNoises

NextGrass == RunEffect \/ BeginGrass \/ PlaceAttempt \/ FinishGrass

SpecGrass == InitGrass /\ [][NextGrass]_vars

(* -------------------- removeTerrainChunk, step by step ----------------- *)

\* the statements of removeTerrainChunk after its guard, in source order:
\* line 264, line 267, line 268, line 269
RemovalSteps_EntryFirst == <<"entry", "grass", "geometry", "mesh">>

RemovalSteps == <<"grass", "geometry", "mesh", "entry">>

\* one statement of removeTerrainChunk; chunk is the object line 260 read
RemovalStep(w, chunk, step) ==
    LET key == Key(chunk.chunkX, chunk.chunkZ)
    IN  CASE step = "grass" -> removeGrassFromChunk(w, chunk.chunkX, chunk.chunkZ)
          [] step = "geometry" -> [w EXCEPT !.gpu.geometries = @ - 1]
          [] step = "mesh" -> [w EXCEPT !.scene = SceneRemove(@, chunk.mesh)]
          [] step = "entry" -> [w EXCEPT !.chunks = Drop(@, key)]

\* the chunks removeTerrainChunk is called for: two with vegetation and two
\* without, once the effect has run with the viewer at the origin
RemoveKeys == {Key(0, 0), Key(-1, 0), Key(2, 0), Key(loadRadius, loadRadius)}

\* removeTerrainChunk, lines 258-261: the guard and the chunk read
BeginRemove ==
    /\ IF probe = NULL THEN TRUE ELSE probe.pc > Len(RemovalSteps)
    /\ \E key \in RemoveKeys :
          /\ key \in DOMAIN chunks
          /\ probe' = [op |-> "removeTerrainChunk", key |-> key,
                       chunk |-> chunks[key], before |-> World, pc |-> 1]
    /\ last' = NoOutcome("beginRemove")
    /\ UNCHANGED <<playerPosition, chunks, grassMeshes, lastPlayerChunk, scene,
                   gpu, effect, frame, failedBuild, noise2D, uniformsReady>>

\* the next statement of the removeTerrainChunk in progress
RemoveStatement ==
    /\ IF probe = NULL THEN FALSE ELSE probe.pc <= Len(RemovalSteps)
    /\ \E after \in {RemovalStep(World, probe.chunk, RemovalSteps[probe.pc])} :
          /\ SetWorld(after)
          /\ last' = Outcome(RemovalSteps[probe.pc], World, after, FALSE,
                             probe.key, NULL)
    /\ probe' = [probe EXCEPT !.pc = @ + 1]
    /\ UNCHANGED <<playerPosition, lastPlayerChunk, effect, frame, failedBuild,
                   noise2D, uniformsReady>>

NextRemove == RunEffect \/ BeginRemove \/ RemoveStatement

SpecRemove == Init /\ [][NextRemove]_vars

(* ------------- updateChunks and the cleanup, statement by statement ---- *)

\* the viewer's x while the calls are run statement by statement: the three
\* chunks around the origin
LifeXs == {x \in ViewerXs : -CHUNK_SIZE <= x /\ x <= CHUNK_SIZE}

\* lines 303-309 with the keep-set taken around the chunk next to the
\* viewer's
ChunksToRemove_Shifted(w, pc) == DOMAIN w.chunks \ chunksToKeep(pc.x + 1, pc.z)

\* lines 303-309: the stored chunks that are not in chunksToKeep
ChunksToRemove(w, pc) == DOMAIN w.chunks \ chunksToKeep(pc.x, pc.z)

\* the two statements of the callback of lines 313-329: lines 314-325 and
\* lines 327-329
GrassStatements == <<"load", "fade">>

\* GrassStatement with the vegetation kept up to GRASS_FADE_START only
GrassStatement_FadeStart(w, key, playerX, playerZ, step) ==
    LET chunk == w.chunks[key]
        chunkDistance == getChunkCenterDistance(chunk, playerX, playerZ)
    IN  CASE step = "load" ->
               IF chunkDistance <= GRASS_FADE_START
               THEN IF ~chunk.hasGrass
                    THEN createGrassForChunk(w, chunk.chunkX, chunk.chunkZ)
                    ELSE w
               ELSE IF chunk.hasGrass
                    THEN removeGrassFromChunk(w, chunk.chunkX, chunk.chunkZ)
                    ELSE w
          [] step = "fade" ->
               IF chunk.hasGrass THEN applyGrassFade(w, key, playerX, playerZ)
               ELSE w

\* one statement of the callback of lines 313-329 for the chunk stored at key
GrassStatement(w, key, playerX, playerZ, step) ==
    LET chunk == w.chunks[key]
        chunkDistance == getChunkCenterDistance(chunk, playerX, playerZ)
    IN  CASE step = "load" ->
               IF chunkDistance <= GRASS_LOAD_DISTANCE
               THEN IF ~chunk.hasGrass
                    THEN createGrassForChunk(w, chunk.chunkX, chunk.chunkZ)
                    ELSE w
               ELSE IF chunk.hasGrass
                    THEN removeGrassFromChunk(w, chunk.chunkX, chunk.chunkZ)
                    ELSE w
          [] step = "fade" ->
               IF chunk.hasGrass THEN applyGrassFade(w, key, playerX, playerZ)
               ELSE w

\* a call is in progress: probe holds its position
Stepping == probe # NULL

\* the position p of a call moved past the loops that have nothing left to
\* do in world w
Settle(p, w) ==
    LET pc == playerChunkOf(playerPosition.x, playerPosition.z)
        created == IF p.phase = "create" /\ p.i > Len(KeepSeq(pc.x, pc.z))
                   THEN [p EXCEPT !.phase = "remove",
                                  !.todo = ChunksToRemove(w, pc)]
                   ELSE p
        removed == IF created.phase = "remove" /\ created.todo = {}
                   THEN IF p.op = "cleanup"
                        THEN [created EXCEPT !.phase = "clear"]
                        ELSE [created EXCEPT !.phase = "grass",
                                             !.todo = DOMAIN w.chunks]
                   ELSE created
    IN  IF removed.phase = "grass" /\ removed.todo = {}
        THEN [removed EXCEPT !.phase = "end"]
        ELSE removed

\* lines 273-283 of a call of updateChunks by caller, in world w
StartUpdate(caller, w) ==
    /\ SetWorld(w)
    /\ lastPlayerChunk' = NextLastChunk(lastPlayerChunk, playerPosition.x,
                                        playerPosition.z)
    /\ probe' = Settle([op |-> "updateChunks", caller |-> caller,
                        phase |-> IF SameChunk(lastPlayerChunk, playerPosition.x,
                                               playerPosition.z)
                                  THEN "end" ELSE "create",
                        i |-> 1, todo |-> {}, pc |-> 1, before |-> w,
                        lastBefore |-> lastPlayerChunk], w)
    /\ last' = NoOutcome("updateChunks")

\* App's handlePlayerPositionUpdate, between two calls
LifeMove ==
    /\ ~Stepping
    /\ \E n \in Neighbours(playerPosition.x, LifeXs) :
          playerPosition' = [x |-> n, z |-> playerPosition.z]
    /\ last' = NoOutcome("move")
    /\ UNCHANGED <<chunks, grassMeshes, lastPlayerChunk, scene, gpu, effect,
                   frame, failedBuild, probe, noise2D, uniformsReady>>

\* the effect body up to the first statements of its updateChunks
BeginEffect ==
    /\ ~Stepping
    /\ effect \in {"none", "cleaned"}
    /\ noise2D # NULL
    /\ uniformsReady' = NotifyUniformsReady(uniformsReady)
    /\ StartUpdate("effect", EffectSetup(World))
    /\ effect' = "active"
    /\ UNCHANGED <<playerPosition, frame, failedBuild, noise2D>>

\* animate up to the first statements of its updateChunks: the requested
\* frame has come
BeginAnimate ==
    /\ ~Stepping
    /\ frame
    /\ StartUpdate("animate", World)
    /\ frame' = FALSE
    /\ UNCHANGED <<playerPosition, effect, failedBuild, noise2D, uniformsReady>>

\* one turn of the loops of lines 289-301
CreateChunkStep ==
    /\ Stepping
    /\ probe.phase = "create"
    /\ LET pc == playerChunkOf(playerPosition.x, playerPosition.z)
           key == KeepSeq(pc.x, pc.z)[probe.i]
       IN  \E after \in {IF key \notin DOMAIN chunks
                         THEN createTerrainChunk(World, key[1], key[2])
                         ELSE World} :
              /\ SetWorld(after)
              /\ probe' = Settle([probe EXCEPT !.i = @ + 1], after)
              /\ last' = Outcome("createTerrainChunk", World, after, FALSE, key, NULL)
    /\ UNCHANGED <<playerPosition, lastPlayerChunk, effect, frame, failedBuild,
                   noise2D, uniformsReady>>

\* the next statement of the removeTerrainChunk of line 310 or line 361
RemoveChunkStatement ==
    /\ Stepping
    /\ probe.phase = "remove"
    /\ LET key == CHOOSE k \in probe.todo : TRUE
           step == RemovalSteps[probe.pc]
       IN  \E after \in {RemovalStep(World, chunks[key], step)} :
              /\ SetWorld(after)
              /\ probe' = Settle(IF probe.pc = Len(RemovalSteps)
                                 THEN [probe EXCEPT !.pc = 1, !.todo = @ \ {key}]
                                 ELSE [probe EXCEPT !.pc = @ + 1], after)
              /\ last' = Outcome(step, World, after, FALSE, key, NULL)
    /\ UNCHANGED <<playerPosition, lastPlayerChunk, effect, frame, failedBuild,
                   noise2D, uniformsReady>>

\* the next statement of the callback of lines 313-329
GrassStatementStep ==
    /\ Stepping
    /\ probe.phase = "grass"
    /\ LET key == CHOOSE k \in probe.todo : TRUE
           step == GrassStatements[probe.pc]
       IN  \E after \in {GrassStatement(World, key, playerPosition.x,
                                        playerPosition.z, step)} :
              /\ SetWorld(after)
              /\ probe' = Settle(IF probe.pc = Len(GrassStatements)
                                 THEN [probe EXCEPT !.pc = 1, !.todo = @ \ {key}]
                                 ELSE [probe EXCEPT !.pc = @ + 1], after)
              /\ last' = Outcome(step, World, after, FALSE, key, NULL)
    /\ UNCHANGED <<playerPosition, lastPlayerChunk, effect, frame, failedBuild,
                   noise2D, uniformsReady>>

\* updateChunks returns: line 353 of the effect, line 351 of animate
EndUpdate ==
    /\ Stepping
    /\ probe.phase = "end"
    /\ frame' = TRUE
    /\ probe' = NULL
    /\ last' = Outcome(probe.caller, probe.before, World,
                       SameChunk(probe.lastBefore, playerPosition.x, playerPosition.z),
                       NULL, NULL)
    /\ UNCHANGED <<playerPosition, chunks, grassMeshes, lastPlayerChunk, scene,
                   gpu, effect, failedBuild, noise2D, uniformsReady>>

\* the cleanup up to its forEach: line 357
BeginCleanup ==
    /\ ~Stepping
    /\ effect = "active"
    /\ frame' = FALSE
    /\ probe' = Settle([op |-> "cleanup", caller |-> "cleanup", phase |-> "remove",
                        i |-> 1, todo |-> DOMAIN chunks, pc |-> 1,
                        before |-> World, lastBefore |-> lastPlayerChunk], World)
    /\ last' = NoOutcome("cancelAnimationFrame")
    /\ UNCHANGED <<playerPosition, chunks, grassMeshes, lastPlayerChunk, scene,
                   gpu, effect, failedBuild, noise2D, uniformsReady>>

\* the cleanup after its forEach: lines 363-383
EndCleanup ==
    /\ Stepping
    /\ probe.phase = "clear"
    /\ \E after \in {DisposeShared([World EXCEPT !.chunks = <<>>,
                                                !.grassMeshes = <<>>])} :
          /\ SetWorld(after)
          /\ last' = Outcome("cleanup", probe.before, after, FALSE, NULL, NULL)
    /\ effect' = "cleaned"
    /\ probe' = NULL
    /\ UNCHANGED <<playerPosition, lastPlayerChunk, frame, failedBuild, noise2D,
                   uniformsReady>>

NextLife ==
    \/ LifeMove \/ BeginEffect \/ BeginAnimate \/ CreateChunkStep
    \/ RemoveChunkStatement \/ GrassStatementStep \/ EndUpdate
    \/ BeginCleanup \/ EndCleanup

SpecLife == Init /\ [][NextLife]_vars

(* --------------------- the heightmap of a chunk ------------------------ *)

\* CHUNK_SEGMENTS of line 8; the source cuts a chunk into 64 segments a side,
\* the heightmaps are built with a small count
CHUNK_SEGMENTS == 2

\* the vertices of PlaneGeometry(CHUNK_SIZE, CHUNK_SIZE, CHUNK_SEGMENTS,
\* CHUNK_SEGMENTS): column ix and row iy of the grid
Grid == (0..CHUNK_SEGMENTS) \X (0..CHUNK_SEGMENTS)

\* Lengths of this section are counted in units of 1/CHUNK_SEGMENTS, so that
\* the vertices have whole coordinates.  vertices[i] and vertices[i + 1] of
\* the vertex v: PlaneGeometry puts x = ix * segment_width - width_half in
\* the first and -(iy * segment_height - height_half) in the second
LocalX(v) == v[1] * CHUNK_SIZE - (CHUNK_SIZE \div 2) * CHUNK_SEGMENTS

LocalY(v) == -(v[2] * CHUNK_SIZE - (CHUNK_SIZE \div 2) * CHUNK_SEGMENTS)

\* lines 88-91 without the sign of line 90: localZ = vertices[i + 1]
SamplePoint_NoFlip(worldPos, v) ==
    <<worldPos.x * CHUNK_SEGMENTS + LocalX(v),
      worldPos.z * CHUNK_SEGMENTS + LocalY(v)>>

\* lines 89-92: the point (worldX, worldZ) the height of the vertex v is
\* taken at
SamplePoint(worldPos, v) ==
    LET localX == LocalX(v)
        localZ == -LocalY(v)
    IN  <<worldPos.x * CHUNK_SEGMENTS + localX,
          worldPos.z * CHUNK_SEGMENTS + localZ>>

\* lines 87-97: the heights written to the vertices of the chunk at worldPos
BuildHeights(worldPos, noise) ==
    [v \in Grid |-> getTerrainHeight(SamplePoint(worldPos, v)[1],
                                     SamplePoint(worldPos, v)[2], noise).height]

\* lines 104-105: where the mesh puts the vertex v in the world: the plane
\* is moved to worldPos and turned by -90 degrees about the x axis, which
\* takes the local (x, y, height) to (x, height, -y)
VertexWorld(worldPos, v) ==
    <<worldPos.x * CHUNK_SEGMENTS + LocalX(v),
      worldPos.z * CHUNK_SEGMENTS - LocalY(v)>>

\* the chunks whose heightmaps are built: a block of two by three
SeamKeys == {Key(cx, cz) : cx \in 0..1, cz \in -1..1}

SeamArgs ==
    UNION {ArgsOf(SamplePoint(getChunkWorldPos(k[1], k[2]), v)) :
              k \in SeamKeys, v \in Grid}

\* a noise that changes from argument to argument along both axes
SawNoise ==
    [a \in SeamArgs |-> ((a[1] + 3 * a[2]) % (2 * NOISE_ONE + 1)) - NOISE_ONE]

\* a noise that changes along z only
StripeNoise ==
    [a \in SeamArgs |-> ((7 * a[2]) % (2 * NOISE_ONE + 1)) - NOISE_ONE]

SeamNoises == {SawNoise, StripeNoise}

InitSeam ==
    /\ InitStreamer
    /\ noise2D \in SeamNoises
    /\ probe = [op |-> "heightmap", heights |-> <<>>]

\* createTerrainChunk for a chunk of the block, with its heightmap
BuildChunk ==
    /\ \E key \in SeamKeys \ DOMAIN chunks :
         \E after \in {createTerrainChunk(World, key[1], key[2])} :
            /\ SetWorld(after)
            /\ probe' = [probe EXCEPT !.heights =
                            Put(@, key, BuildHeights(after.chunks[key].worldPos,
                                                     noise2D))]
            /\ last' = Outcome("createTerrainChunk", World, after, FALSE, key, NULL)
    /\ UNCHANGED <<playerPosition, lastPlayerChunk, effect, frame, failedBuild,
                   noise2D, uniformsReady>>

SpecSeam == InitSeam /\ [][BuildChunk]_vars

(* ------------------------- getTerrainHeight alone ---------------------- *)

\* the points getTerrainHeight is asked for: the origin, where every argument
\* of noise2D is the same, and a point where they all differ
HeightPoints == {<<0, 0>>, <<-250, 49>>}

\* the values of the noise behind the biome mask: the ends of the range, and
\* the masks 0.5, 0.64, 0.65 (the threshold), 0.66 and 0.72
BiomeNoise ==
    {-NOISE_ONE, 0, BIOME_THRESHOLD - 1 - NOISE_ONE, BIOME_THRESHOLD - NOISE_ONE,
     BIOME_THRESHOLD + 1 - NOISE_ONE, BIOME_THRESHOLD + 7 - NOISE_ONE, NOISE_ONE}

\* the values of the noise behind the octaves
OctaveNoise == {-NOISE_ONE, 0, NOISE_ONE}

\* the noise sources over the arguments of the point p
HeightNoises(p) ==
    LET biomeArg == NoiseArg(p[1], p[2], BIOME_SCALE)
    IN  {[a \in ArgsOf(p) |-> IF a = biomeArg THEN nb ELSE oct[a]] :
            nb \in BiomeNoise, oct \in [ArgsOf(p) \ {biomeArg} -> OctaveNoise]}

InitHeight ==
    /\ InitStreamer
    /\ \E p \in HeightPoints :
          /\ probe = [op |-> "getTerrainHeight", x |-> p[1], z |-> p[2],
                      result |-> NULL]
          /\ noise2D \in HeightNoises(p) \cup {NULL}

\* getTerrainHeight(x, z, noise2D) for the probed point
SampleHeight ==
    /\ probe.result = NULL
    /\ probe' = [probe EXCEPT !.result = <<getTerrainHeight(probe.x, probe.z, noise2D)>>]
    /\ UNCHANGED <<playerPosition, chunks, grassMeshes, lastPlayerChunk, scene,
                   gpu, effect, frame, failedBuild, noise2D, uniformsReady, last>>

SpecHeight == InitHeight /\ [][SampleHeight]_vars

(* --------------------- the effect without a noise source --------------- *)

\* The effect body when noise2D is null: it returns at line 24, before any
\* chunk function is defined, and returns no cleanup.
RunEffectWithoutNoise ==
    /\ effect = "none"
    /\ noise2D = NULL
    /\ effect' = "inert"
    /\ last' = NoOutcome("effectWithoutNoise")
    /\ UNCHANGED <<playerPosition, chunks, grassMeshes, lastPlayerChunk, scene,
                   gpu, frame, failedBuild, probe, noise2D, uniformsReady>>

InitNoise == InitStreamer /\ probe = NULL /\ noise2D \in {NULL, ValleyNoise}

NextNoise == Next \/ RunEffectWithoutNoise

SpecNoise == InitNoise /\ [][NextNoise]_vars

(* ------------------------- the fade function alone --------------------- *)

\* the largest distance the fade function is asked for
MaxDistance == 200

InitFade ==
    /\ InitStreamer
    /\ noise2D = ValleyNoise
    /\ probe \in {[distance |-> d, opacity |-> NULL] : d \in 0..MaxDistance}

\* lines 128-138 of applyGrassFade for the probed distance
ComputeFade ==
    /\ probe # NULL /\ probe.opacity = NULL
    /\ probe' = [probe EXCEPT !.opacity = <<targetOpacity(probe.distance)>>]
    /\ UNCHANGED <<playerPosition, chunks, grassMeshes, lastPlayerChunk, scene,
                   gpu, effect, frame, failedBuild, noise2D, uniformsReady, last>>

SpecFade == InitFade /\ [][ComputeFade]_vars

(* ------------------------ Player.jsx: the jump ------------------------- *)

\* Heights and speeds of the player are counted in units of 1/LENGTH_ONE.
LENGTH_ONE == 100

\* cameraHeightRef, line 17: 2.6
cameraHeight == 260

\* line 133: -0.01 a frame
gravity == -1

\* line 134: 0.25
jumpForce == 25

\* line 135: 0.05
groundSnapDistance == 5

\* line 259: 0.18
maxPosShake == 18

\* lines 183-184 for a player who stands on flat terrain of height 0
groundLevel == 0 * LENGTH_ONE + cameraHeight

\* offsetY of line 261 in the frame a jump starts in: nothing (the noise at
\* a half), or the trauma 0.4 of line 204, squared, under the noise 0
ShakeOffsets == {0, -((maxPosShake * 4 * 4) \div LENGTH_ONE)}

\* update, lines 183-266, for a player who does not walk: p holds the refs,
\* the Space key and the camera's height; offsetY is the shake of line 261
update(p, offsetY) ==
    LET \* lines 187-195
        isCurrentlyGrounded == /\ p.y - groundLevel <= groundSnapDistance
                               /\ p.verticalVelocity <= 0
        grounded == IF isCurrentlyGrounded THEN TRUE ELSE p.isGrounded
        unlocked == IF isCurrentlyGrounded THEN FALSE ELSE p.jumpLock
        \* lines 198-205
        jumps == p.Space /\ ~unlocked /\ grounded
        \* lines 207-211
        velocity == (IF jumps THEN jumpForce ELSE p.verticalVelocity)
                       + (IF jumps \/ ~grounded THEN gravity ELSE 0)
        y == p.y + velocity
        \* lines 223-237
        lands == \/ y - groundLevel <= groundSnapDistance /\ velocity <= 0
                 \/ p.cameraY < groundLevel
        newY == IF lands THEN groundLevel ELSE y
    IN  [p EXCEPT !.y = newY,
                  !.verticalVelocity = IF lands THEN 0 ELSE velocity,
                  !.isGrounded = lands,
                  !.jumpLock = IF lands THEN FALSE
                               ELSE IF jumps THEN TRUE ELSE unlocked,
                  \* lines 248 and 265
                  !.cameraY = newY + offsetY,
                  \* history
                  !.jumped = jumps,
                  !.spaceReleased = IF jumps THEN FALSE ELSE @]

\* lines 69-73 and the refs of lines 9-23: the player stands, no key is down;
\* spaceReleased and jumped are history: Space has been up since the last
\* jump started, and the last frame started a jump
InitJump ==
    /\ InitStreamer
    /\ noise2D = ValleyNoise
    /\ probe = [op |-> "update", Space |-> FALSE, jumpLock |-> FALSE,
                isGrounded |-> TRUE, verticalVelocity |-> 0, y |-> groundLevel,
                cameraY |-> groundLevel, spaceReleased |-> TRUE, jumped |-> FALSE]

\* handleKeyDown for Space, lines 76-81
handleKeyDown ==
    /\ probe' = [probe EXCEPT !.Space = TRUE]
    /\ last' = NoOutcome("keydown")
    /\ UNCHANGED <<playerPosition, chunks, grassMeshes, lastPlayerChunk, scene,
                   gpu, effect, frame, failedBuild, noise2D, uniformsReady>>

\* handleKeyUp for Space, lines 83-87
handleKeyUp ==
    /\ probe' = [probe EXCEPT !.Space = FALSE, !.jumpLock = FALSE,
                              !.spaceReleased = TRUE]
    /\ last' = NoOutcome("keyup")
    /\ UNCHANGED <<playerPosition, chunks, grassMeshes, lastPlayerChunk, scene,
                   gpu, effect, frame, failedBuild, noise2D, uniformsReady>>

\* one animation frame of the player: update
UpdateFrame ==
    /\ \E offsetY \in (IF update(probe, 0).jumped THEN ShakeOffsets ELSE {0}) :
          probe' = update(probe, offsetY)
    /\ last' = NoOutcome("update")
    /\ UNCHANGED <<playerPosition, chunks, grassMeshes, lastPlayerChunk, scene,
                   gpu, effect, frame, failedBuild, noise2D, uniformsReady>>

NextJump == handleKeyDown \/ handleKeyUp \/ UpdateFrame

SpecJump == InitJump /\ [][NextJump]_vars

(* ------------------------- claims: chunk streaming --------------------- *)

TickOps == {"effect", "animate"}

\* key k lies within three chunks (Chebyshev) of the chunk that holds the
\* world position p
InSquareAround(k, p) ==
    /\ (k[1] - 3) * CHUNK_SIZE <= p.x /\ p.x < (k[1] + 4) * CHUNK_SIZE
    /\ (k[2] - 3) * CHUNK_SIZE <= p.z /\ p.z < (k[2] + 4) * CHUNK_SIZE

\* key k lies within three chunks (Chebyshev) of the chunk coordinate c
InSquareOf(k, c) ==
    /\ c.x - 3 <= k[1] /\ k[1] <= c.x + 3
    /\ c.z - 3 <= k[2] /\ k[2] <= c.z + 3

\* the square of the Euclidean distance from the centre of chunk k to p
CenterDistance2(k, p) ==
    LET dx == k[1] * CHUNK_SIZE + (CHUNK_SIZE \div 2) - p.x
        dz == k[2] * CHUNK_SIZE + (CHUNK_SIZE \div 2) - p.z
    IN  dx * dx + dz * dz

\* C1: after a tick in which the viewer's chunk coordinate changed, the keys
\* of the chunk store are exactly the 49 coordinates within three chunks of
\* the viewer's chunk, for negative viewer coordinates too.
C1_StoreIsSquare ==
    (last.op \in TickOps /\ ~last.skipped) =>
        /\ \A k \in DOMAIN chunks : InSquareAround(k, playerPosition)
        /\ Cardinality(DOMAIN chunks) = 49

C1_Witness ==
    /\ last.op = "animate" /\ ~last.skipped
    /\ playerPosition.x < 0 /\ playerPosition.z < 0
    /\ last.removed # {} /\ last.created # {}

\* C2: after every tick, every chunk with vegetation has the opacity of the
\* fade function at the distance from its centre to the viewer's position.
C2_FadeEveryTick ==
    last.op \in TickOps =>
        \A k \in DOMAIN grassMeshes :
            LET d == Hypot(k[1] * CHUNK_SIZE + (CHUNK_SIZE \div 2) - playerPosition.x,
                           k[2] * CHUNK_SIZE + (CHUNK_SIZE \div 2) - playerPosition.z)
            IN  grassMeshes[k].opacity =
                    IF d <= GRASS_FADE_START THEN OPACITY_ONE
                    ELSE IF d >= GRASS_LOAD_DISTANCE THEN 0
                    ELSE ((GRASS_LOAD_DISTANCE - d) * OPACITY_ONE)
                            \div (GRASS_LOAD_DISTANCE - GRASS_FADE_START)

\* C3: after every tick, a stored chunk has vegetation exactly when its
\* centre is within GRASS_LOAD_DISTANCE of the viewer's position.
C3_GrassByDistance ==
    last.op \in TickOps =>
        \A k \in DOMAIN chunks :
            (k \in DOMAIN grassMeshes) <=>
                (CenterDistance2(k, playerPosition)
                    <= GRASS_LOAD_DISTANCE * GRASS_LOAD_DISTANCE)

\* C11: after every tick, each vegetation group is visible exactly when its
\* material's opacity is above 0.05; none is left visible at or below 0.05,
\* the vegetation created in that tick (with opacity 0) included.
C11_HiddenWhenFaded ==
    last.op \in TickOps =>
        \A k \in DOMAIN grassMeshes :
            grassMeshes[k].visible <=> (grassMeshes[k].opacity * 100 > 5 * OPACITY_ONE)

C11_Witness ==
    /\ last.op = "animate" /\ ~last.skipped
    /\ \E k \in last.grassCreated :
          /\ grassMeshes[k].opacity = 0 /\ ~grassMeshes[k].visible
    /\ \E k \in DOMAIN grassMeshes :
          /\ grassMeshes[k].opacity > 0
          /\ grassMeshes[k].opacity < OPACITY_ONE
          /\ grassMeshes[k].visible

\* the render handles alive: scene children and undisposed resources
LiveHandles ==
    BagCardinality(scene) + gpu.geometries + gpu.instanced + gpu.materials

\* C4: the live render handles are those of the stored chunks (a geometry
\* and a mesh each) and of their vegetation (two instanced meshes, a material
\* and a group each): removing a chunk gives back every handle its creation
\* took, over any number of create and destroy cycles.
C4_HandlesReturn ==
    LiveHandles = 2 * Cardinality(DOMAIN chunks) + 4 * Cardinality(DOMAIN grassMeshes)

C4_Witness ==
    /\ last.op = "animate"
    /\ last.removed \cap last.grassRemoved # {}
    /\ last.created # {}

\* C6: a vegetation entry exists only for a stored chunk, and a chunk's
\* hasGrass flag is true exactly when its vegetation entry exists.
C6_GrassOnlyWithChunk ==
    /\ DOMAIN grassMeshes \subseteq DOMAIN chunks
    /\ \A k \in DOMAIN chunks : chunks[k].hasGrass <=> (k \in DOMAIN grassMeshes)

C6_Witness ==
    /\ last.op = "animate"
    /\ last.grassRemoved # {}
    /\ last.removed # {}
    /\ DOMAIN grassMeshes # {}

\* the viewer is in the chunk that lastPlayerChunk records
InRecordedChunk ==
    /\ lastPlayerChunk.x # NULL /\ lastPlayerChunk.z # NULL
    /\ lastPlayerChunk.x[1] * CHUNK_SIZE <= playerPosition.x
    /\ playerPosition.x < (lastPlayerChunk.x[1] + 1) * CHUNK_SIZE
    /\ lastPlayerChunk.z[1] * CHUNK_SIZE <= playerPosition.z
    /\ playerPosition.z < (lastPlayerChunk.z[1] + 1) * CHUNK_SIZE

\* C7: a tick that finds the viewer in the chunk recorded at the previous
\* tick creates no terrain chunk and removes none.
C7_SameChunkKeepsStore ==
    [][(last'.op \in TickOps /\ InRecordedChunk) => chunks' = chunks]_vars

C7_Witness ==
    /\ last.op = "animate" /\ last.skipped
    /\ playerPosition.x % CHUNK_SIZE # 0
    /\ DOMAIN chunks # {}

\* C8: a tick that finds the viewer's chunk changed from A to B removes
\* exactly the chunks of square(A) outside square(B) and creates exactly
\* those of square(B) outside square(A).
C8_DeltaOfSquares ==
    [][(last'.op = "animate" /\ lastPlayerChunk.x # NULL /\ ~InRecordedChunk) =>
         LET A == [x |-> lastPlayerChunk.x[1], z |-> lastPlayerChunk.z[1]]
             B == [x |-> lastPlayerChunk'.x[1], z |-> lastPlayerChunk'.z[1]]
             touched == DOMAIN chunks \cup DOMAIN chunks'
         IN  /\ \A k \in touched :
                   (k \in DOMAIN chunks /\ k \notin DOMAIN chunks')
                       <=> (InSquareOf(k, A) /\ ~InSquareOf(k, B))
             /\ \A k \in {<<cx, cz>> : cx \in (B.x - 3)..(B.x + 3),
                                        cz \in (B.z - 3)..(B.z + 3)} :
                   (k \notin DOMAIN chunks /\ k \in DOMAIN chunks')
                       <=> ~InSquareOf(k, A)]_vars

\* C5: the scene holds exactly one terrain mesh for each stored chunk and
\* none for any other coordinate, each chunk is stored under its own
\* coordinate, and createTerrainChunk for a coordinate that is in the store
\* changes neither the store nor the scene.
C5_OneChunkPerCoordinate ==
    /\ [](/\ \A k \in DOMAIN chunks :
               /\ chunks[k].chunkX = k[1] /\ chunks[k].chunkZ = k[2]
               /\ CopiesIn(TerrainName(k), scene) = 1
          /\ \A n \in BagToSet(scene) :
               n[1] = "terrainChunk" => <<n[2], n[3]>> \in DOMAIN chunks)
    /\ [][(last'.op = "createTerrainChunk" /\ last'.key \in DOMAIN chunks)
            => (chunks' = chunks /\ scene' = scene)]_vars

C5_Witness ==
    /\ last.op = "createTerrainChunk"
    /\ last.key \in DOMAIN chunks /\ last.created = {}
    /\ chunks[last.key].hasGrass

(* ---------------------- claims: a build that fails --------------------- *)

\* C9: after a chunk's build has failed in a tick, the next tick is requested
\* and, the coordinate still being in the keep-set, attempts the build again
\* (the chunk is built, or its build fails again).
C9_FailedBuildRetried ==
    /\ []((failedBuild # NULL /\ effect = "active") => frame)
    /\ [][(failedBuild # NULL /\ last'.op \in TickOps
             /\ InSquareAround(failedBuild, playerPosition'))
            => (failedBuild \in DOMAIN chunks' \/ failedBuild' = failedBuild)]_vars

\* C24: a failure to build a chunk's geometry leaves the tick at once, as an
\* exception of its caller: nothing of the tick that follows the build is
\* done (no later chunk is created, none removed, no vegetation touched),
\* the caller requests no frame, an effect run ends without its cleanup, and
\* the chunk store has no entry, the scene no mesh, for the coordinate.
C24_FailurePropagates ==
    last.failed # NULL =>
        /\ last.failed \notin DOMAIN chunks
        /\ TerrainName(last.failed) \notin BagToSet(scene)
        /\ last.removed = {} /\ last.grassCreated = {} /\ last.grassRemoved = {}
        /\ \A k \in last.created :
              k[1] < last.failed[1] \/ (k[1] = last.failed[1] /\ k[2] < last.failed[2])
        /\ ~frame
        /\ last.op = "effect" => effect = "crashed"

C24_Witness ==
    /\ last.failed # NULL /\ last.op = "animate"
    /\ last.created # {}
    /\ DOMAIN chunks \ chunksToKeep(playerChunkOf(playerPosition.x, playerPosition.z).x,
                                    playerChunkOf(playerPosition.x, playerPosition.z).z) # {}

(* -------------------- claims: vegetation placement --------------------- *)

\* a placement (a call of createGrassForChunk run sample by sample) exists
Placing == IF probe = NULL THEN FALSE ELSE probe.op = "createGrassForChunk"

\* C12: every sample drawn for the vegetation of chunk (cx, cz) lies in the
\* region that floor division by CHUNK_SIZE maps to (cx, cz).
C12_SamplesInChunk ==
    (Placing /\ probe.sample # NULL) =>
        /\ Floor(probe.sample[1], CHUNK_SIZE) = probe.chunkX
        /\ Floor(probe.sample[2], CHUNK_SIZE) = probe.chunkZ

\* the terrain height at an instance, or at a sampled point
HeightAt(x, z) == getTerrainHeight(x, z, noise2D).height

\* C13: every instance is at a position whose terrain height is strictly
\* below minRockHeight, and an attempt whose sample is at or above it adds no
\* instance and leaves the placed count as it was.
C13_AcceptedBelowRock ==
    /\ [](Placing =>
            \A m \in {probe.mesh1, probe.mesh2} : \A n \in DOMAIN m :
                HeightAt(m[n].x, m[n].z) < minRockHeight * HEIGHT_ONE)
    /\ [][(Placing /\ last'.op = "placeAttempt"
             /\ HeightAt(probe'.sample[1], probe'.sample[2])
                    >= minRockHeight * HEIGHT_ONE)
            => /\ probe'.placed = probe.placed
               /\ probe'.mesh1 = probe.mesh1 /\ probe'.mesh2 = probe.mesh2]_vars

C13_Witness ==
    /\ Placing /\ last.op = "placeAttempt"
    /\ probe.placed = 1 /\ probe.i > 1
    /\ HeightAt(probe.sample[1], probe.sample[2]) = minRockHeight * HEIGHT_ONE

\* C14: a placement makes at most grassCount * 15 attempts and places at most
\* grassCount instances; no attempt is made once grassCount are placed; and
\* when the loop is left both meshes' counts are the number placed, which is
\* below grassCount only if the attempts ran out.
C14_PlacementBounded ==
    /\ [](Placing =>
            /\ probe.i <= grassCount * 15
            /\ probe.placed <= grassCount /\ probe.placed <= probe.i
            /\ probe.done =>
                 /\ probe.count1 = probe.placed /\ probe.count2 = probe.placed
                 /\ probe.placed < grassCount => probe.i = grassCount * 15)
    /\ [][(Placing /\ last'.op = "placeAttempt")
            => (probe.placed < grassCount /\ probe.i < grassCount * 15)]_vars

C14_Witness ==
    /\ Placing /\ probe.done
    /\ probe.placed > 0 /\ probe.placed < grassCount
    /\ probe.i = grassCount * 15
    /\ probe.count1 = probe.placed /\ probe.count2 = probe.placed

\* C15: the two instanced meshes hold an instance at the same indices,
\* 0 .. placed - 1; the two instances at an index have the same position and
\* scale and yaws a quarter turn apart; the meshes' counts are equal.
C15_CrossedPairs ==
    Placing =>
        /\ DOMAIN probe.mesh1 = 0..(probe.placed - 1)
        /\ DOMAIN probe.mesh2 = 0..(probe.placed - 1)
        /\ \A n \in DOMAIN probe.mesh1 :
              LET a == probe.mesh1[n]
                  b == probe.mesh2[n]
              IN  /\ a.x = b.x /\ a.y = b.y /\ a.z = b.z
                  /\ a.scale = b.scale
                  /\ 4 * (b.yaw - a.yaw) = RANDOM_ONE
        /\ probe.count1 = probe.count2

C15_Witness ==
    /\ Placing /\ probe.done /\ probe.placed = grassCount
    /\ probe.mesh1[0].yaw # probe.mesh1[1].yaw
    /\ probe.mesh1[0].scale # probe.mesh1[1].scale
    /\ probe.mesh1[0].x # probe.mesh1[1].x

(* ---------------------- claims: removing a chunk ----------------------- *)

\* a removeTerrainChunk has been begun
Removing == IF probe = NULL THEN FALSE ELSE probe.op = "removeTerrainChunk"

\* C20: removeTerrainChunk disposes and unregisters the vegetation, then
\* disposes the geometry and takes the mesh from the scene, and only then
\* deletes the store entry: when the entry goes, the chunk has no vegetation
\* entry, group, geometry or mesh left, and in no state does the scene hold
\* a mesh or a group (or the vegetation map an entry) of a chunk that is not
\* in the store.  The statements together do what removeTerrainChunk does.
C20_EntryDeletedLast ==
    /\ [](/\ \A n \in BagToSet(scene) : <<n[2], n[3]>> \in DOMAIN chunks
          /\ DOMAIN grassMeshes \subseteq DOMAIN chunks
          /\ gpu.geometries <= Cardinality(DOMAIN chunks)
          /\ (Removing /\ probe.pc > Len(RemovalSteps)) =>
                World = removeTerrainChunk(probe.before, probe.key[1], probe.key[2]))
    /\ [][(Removing /\ probe.key \in DOMAIN chunks /\ probe.key \notin DOMAIN chunks')
            => /\ probe.key \notin DOMAIN grassMeshes
               /\ ~BagIn(GrassName(probe.key), scene)
               /\ ~BagIn(TerrainName(probe.key), scene)
               /\ gpu.geometries = Cardinality(DOMAIN chunks) - 1
               /\ ~chunks[probe.key].hasGrass]_vars

C20_Witness ==
    /\ Removing /\ probe.pc = Len(RemovalSteps)
    /\ probe.chunk.hasGrass
    /\ probe.key \in DOMAIN chunks
    /\ ~BagIn(TerrainName(probe.key), scene)
    /\ ~BagIn(GrassName(probe.key), scene)

(* ----------------------- claims: the height function ------------------- *)

\* a sample of getTerrainHeight has been taken with a noise source
Sampled ==
    IF probe = NULL THEN FALSE
    ELSE probe.op = "getTerrainHeight" /\ probe.result # NULL /\ noise2D # NULL

Abs(n) == IF n >= 0 THEN n ELSE -n

\* C16: with the octave noise fixed the height tends to 0 as biomeMask tends
\* to the threshold from either side: |height| <= 77 * (biomeMask - 0.65) / 0.35
\* on the mountain side and |height| <= 6 * (0.65 - biomeMask) / 0.65 on the
\* plains side (77 and 6 being the sums of the amplitudes and the base); at
\* the threshold itself the sample is plains with height 0.
C16_ContinuousAtThreshold ==
    Sampled =>
        LET r == probe.result[1]
        IN  /\ r.isMountainous =>
                 Abs(r.height) * (MASK_ONE - BIOME_THRESHOLD)
                    <= 77 * (r.biomeMask - BIOME_THRESHOLD) * HEIGHT_ONE
            /\ ~r.isMountainous =>
                 Abs(r.height) * BIOME_THRESHOLD
                    <= 6 * (BIOME_THRESHOLD - r.biomeMask) * HEIGHT_ONE
            /\ r.biomeMask = BIOME_THRESHOLD => (~r.isMountainous /\ r.height = 0)

C16_Witness ==
    /\ Sampled
    /\ probe.result[1].biomeMask = BIOME_THRESHOLD
    /\ ~probe.result[1].isMountainous /\ probe.result[1].height = 0
    /\ \E a \in DOMAIN noise2D : noise2D[a] = NOISE_ONE

\* the noise at the probed point for a scale in thousandths
NoiseOf(scale) == noise2D[NoiseArg(probe.x, probe.z, scale)]

\* C18: biomeMask = (noise + 1) / 2, within [0, 1]; isMountainous =
\* (biomeMask > 0.65); height = intensity * (sum of noise * amplitude over the
\* biome's octaves + base), with (biomeMask - 0.65) / 0.35, five octaves
\* (amplitudes 30, 15, 8, 3, 1) and base 20 for mountains and
\* 1 - biomeMask / 0.65, three octaves (3, 1.5, 0.5) and base 1 for plains.
\* Sums are in units of 1 / (2 * NOISE_ONE).
C18_HeightFormula ==
    Sampled =>
        LET r == probe.result[1]
            mountainSum == 60 * NoiseOf(10) + 30 * NoiseOf(20) + 16 * NoiseOf(40)
                             + 6 * NoiseOf(80) + 2 * NoiseOf(150)
                             + 20 * 2 * NOISE_ONE
            plainsSum == 6 * NoiseOf(10) + 3 * NoiseOf(30) + 1 * NoiseOf(60)
                             + 1 * 2 * NOISE_ONE
        IN  /\ 2 * NOISE_ONE * r.biomeMask = (NoiseOf(3) + NOISE_ONE) * MASK_ONE
            /\ 0 <= r.biomeMask /\ r.biomeMask <= MASK_ONE
            /\ r.isMountainous <=> (100 * r.biomeMask > 65 * MASK_ONE)
            /\ r.isMountainous =>
                 r.height = (r.biomeMask - BIOME_THRESHOLD) * mountainSum
                              * (HEIGHT_ONE \div (2 * NOISE_ONE * (MASK_ONE - BIOME_THRESHOLD)))
            /\ ~r.isMountainous =>
                 r.height = (BIOME_THRESHOLD - r.biomeMask) * plainsSum
                              * (HEIGHT_ONE \div (2 * NOISE_ONE * BIOME_THRESHOLD))

C18_Witness ==
    /\ Sampled
    /\ probe.x # 0
    /\ ~probe.result[1].isMountainous
    /\ probe.result[1].biomeMask = MASK_ONE \div 2
    /\ NoiseOf(10) = NOISE_ONE /\ NoiseOf(30) = -NOISE_ONE /\ NoiseOf(60) = NOISE_ONE
    /\ NoiseOf(20) = NOISE_ONE
    /\ probe.result[1].height * 13 = 9 * HEIGHT_ONE

\* C19: without a noise source getTerrainHeight gives the flat default
\* everywhere and the streamer still produces the (flat) terrain chunks
\* around the viewer.
C19_FlatWorldWithoutNoise ==
    (noise2D = NULL /\ effect = "inert") =>
        /\ getTerrainHeight(playerPosition.x, playerPosition.z, noise2D)
              = [height |-> 0, biomeMask |-> 0, isMountainous |-> FALSE]
        /\ Cardinality(DOMAIN chunks) = 49
        /\ \A k \in DOMAIN chunks : InSquareAround(k, playerPosition)

(* ----------------------- claims: the fade function --------------------- *)

\* C10: the opacity applyGrassFade computes is 1 for every distance up to 80,
\* 0 at distance 140, 1 - (d - 80)/60 in between (a half at 110), and always
\* within [0, 1].
C10_FadeIsLinear ==
    (probe # NULL /\ probe.opacity # NULL) =>
        LET d == probe.distance
            o == probe.opacity[1]
        IN  /\ d <= 80 => o = OPACITY_ONE
            /\ d = 140 => o = 0
            /\ (80 <= d /\ d <= 140) => 60 * o = (60 - (d - 80)) * OPACITY_ONE
            /\ d = 110 => 2 * o = OPACITY_ONE
            /\ 0 <= o /\ o <= OPACITY_ONE

C10_Witness ==
    /\ probe # NULL /\ probe.opacity # NULL
    /\ probe.distance = 110 /\ 2 * probe.opacity[1] = OPACITY_ONE

(* ---------------------- claims: the component's props ------------------ *)

\* C22: onMaterialUniformsReady is invoked exactly once, with uniforms that
\* contain uCameraPosition, and over any sequence of effect runs, ticks and
\* cleanups never a second time.
C22_UniformsReadyOnce ==
    /\ uniformsReady.invoked # "again"
    /\ effect = "active" =>
          /\ uniformsReady.invoked = "once"
          /\ "uCameraPosition" \in uniformsReady.uniforms

(* -------------------- claims: names, store and scene ------------------- *)

\* lines 51-55 of Player.jsx: the objects of the scene that
\* getAccurateTerrainHeight casts its ray against
terrainChunks(s) == {n \in BagToSet(s) : n[1] = "terrainChunk"}

\* the vegetation groups of the scene
GrassGroups(s) == {n \in BagToSet(s) : n[1] = "grassChunk"}

\* C23: every terrain mesh of the scene is named terrainChunk_<cx>,<cz> and
\* every vegetation group grassChunk_<cx>,<cz> after the coordinate it is
\* stored under, and the terrainChunk_ names the ground-height probe collects
\* from the scene are exactly the names of the keys of the chunk store.
C23_NamesMatchStore ==
    /\ terrainChunks(scene) = {TerrainName(k) : k \in DOMAIN chunks}
    /\ GrassGroups(scene) = {GrassName(k) : k \in DOMAIN grassMeshes}
    /\ \A k \in DOMAIN chunks :
          chunks[k].mesh = <<"terrainChunk", chunks[k].chunkX, chunks[k].chunkZ>>
    /\ \A k \in DOMAIN grassMeshes :
          /\ k \in DOMAIN chunks
          /\ grassMeshes[k].group = <<"grassChunk", chunks[k].chunkX, chunks[k].chunkZ>>

C23_Witness ==
    /\ last.op = "animate" /\ last.created # {} /\ last.removed # {}
    /\ last.grassCreated # {}
    /\ \E k \in DOMAIN grassMeshes : k[1] # k[2]

(* ------------------- claims: cleanup and effect re-run ----------------- *)

\* C25: whenever the effect runs with a viewer position, a re-run after a
\* cleanup included, its initial chunk generation leaves the store holding
\* the whole keep-set around the viewer's chunk, also when the viewer is in
\* the chunk of the last tick before the cleanup.
C25_EffectPopulatesStore ==
    last.op = "effect" =>
        DOMAIN chunks = chunksToKeep(playerChunkOf(playerPosition.x, playerPosition.z).x,
                                     playerChunkOf(playerPosition.x, playerPosition.z).z)

\* C28: every vegetation chunk that is created uses the shared vegetation
\* geometry, material and textures in a state in which they have been
\* loaded and not disposed, after a cleanup and an effect re-run too.
C28_SharedResourcesLive ==
    last.grassCreated # {} =>
        /\ gpu.grassGeometry = "live"
        /\ gpu.grassMaterial = "live"
        /\ gpu.grassTextures = "live"

\* C29: after the cleanup the chunk store and the vegetation map are empty,
\* no terrain mesh and no vegetation group is left in the scene, none of
\* their resources is left undisposed, and no frame is requested, so that
\* the store stays empty for as long as the effect does not run again.
C29_CleanupEmpties ==
    effect = "cleaned" =>
        /\ chunks = <<>> /\ grassMeshes = <<>>
        /\ terrainChunks(scene) = {} /\ GrassGroups(scene) = {}
        /\ gpu.geometries = 0 /\ gpu.instanced = 0 /\ gpu.materials = 0
        /\ ~frame

C29_Witness ==
    /\ effect = "cleaned" /\ last.op = "cleanup"
    /\ last.removed # {} /\ last.grassRemoved # {}
    /\ lastPlayerChunk.x # NULL

(* --------------------- claims: the life of a chunk --------------------- *)

\* the statements of a call, run one by one, have done what the call does
\* as a whole
StepsAgreeWithCall ==
    /\ (Stepping /\ probe.phase = "end") =>
          World = updateChunks(probe.before, probe.lastBefore, playerPosition.x,
                               playerPosition.z, NULL)
    /\ (Stepping /\ probe.phase = "clear") =>
          [World EXCEPT !.chunks = <<>>, !.grassMeshes = <<>>]
            = [RemoveLoop(probe.before, DOMAIN probe.before.chunks)
                 EXCEPT !.chunks = <<>>, !.grassMeshes = <<>>]

\* where the coordinate k is in its life, given the store c and the
\* vegetation map g
Phase(c, g, k) ==
    IF k \notin DOMAIN c
    THEN IF k \in DOMAIN g THEN "VegetationOnly" ELSE "Unloaded"
    ELSE IF c[k].hasGrass /\ k \in DOMAIN g THEN "VegetationLoaded"
         ELSE IF ~c[k].hasGrass /\ k \notin DOMAIN g THEN "TerrainLoaded"
         ELSE "Torn"

\* the steps of the life of a coordinate
Lifecycle ==
    {<<"Unloaded", "TerrainLoaded">>, <<"TerrainLoaded", "VegetationLoaded">>,
     <<"VegetationLoaded", "TerrainLoaded">>, <<"TerrainLoaded", "Unloaded">>}

InBothKeepSets(k) ==
    /\ probe.lastBefore.x # NULL /\ probe.lastBefore.z # NULL
    /\ InSquareOf(k, [x |-> probe.lastBefore.x[1], z |-> probe.lastBefore.z[1]])
    /\ InSquareAround(k, playerPosition)

\* C27: no statement of a tick touches a stored chunk whose coordinate is in
\* the keep-set of the tick before and in the new one: its entry and its mesh
\* stay, the mesh is not added to the scene again and no geometry is built
\* for it; and if the chunk has vegetation and its centre is within
\* GRASS_LOAD_DISTANCE of the viewer, its vegetation entry and group stay and
\* no instances are built or disposed for it.
C27_KeptChunkUntouched ==
    [][(Stepping /\ probe.op = "updateChunks") =>
         \A k \in DOMAIN chunks \cap DOMAIN probe.before.chunks :
            InBothKeepSets(k) =>
              /\ k \in DOMAIN chunks'
              /\ chunks'[k].mesh = chunks[k].mesh
              /\ CopiesIn(chunks[k].mesh, scene') = CopiesIn(chunks[k].mesh, scene)
              /\ last'.key = k => gpu'.geometries = gpu.geometries
              /\ (/\ k \in DOMAIN grassMeshes \cap DOMAIN probe.before.grassMeshes
                  /\ CenterDistance2(k, playerPosition)
                        <= GRASS_LOAD_DISTANCE * GRASS_LOAD_DISTANCE) =>
                    /\ k \in DOMAIN grassMeshes'
                    /\ chunks'[k].hasGrass
                    /\ grassMeshes'[k].group = grassMeshes[k].group
                    /\ CopiesIn(grassMeshes[k].group, scene')
                          = CopiesIn(grassMeshes[k].group, scene)
                    /\ last'.key = k => /\ gpu'.instanced = gpu.instanced
                                        /\ gpu'.materials = gpu.materials]_vars

\* the end of a tick that built and removed chunks and kept one with its
\* vegetation, while another kept chunk lost or got its own
C27_Witness ==
    /\ Stepping /\ probe.op = "updateChunks" /\ probe.phase = "end"
    /\ DOMAIN chunks \ DOMAIN probe.before.chunks # {}
    /\ DOMAIN probe.before.chunks \ DOMAIN chunks # {}
    /\ DOMAIN grassMeshes # DOMAIN probe.before.grassMeshes
    /\ \E k \in DOMAIN grassMeshes \cap DOMAIN probe.before.grassMeshes :
          InBothKeepSets(k)

(* ------------------------ claims: chunk borders ------------------------ *)

\* the chunk at key b follows the chunk at key a along x or along z
Adjacent(a, b) ==
    \/ b[1] = a[1] + 1 /\ b[2] = a[2]
    \/ b[1] = a[1] /\ b[2] = a[2] + 1

\* the vertices of the edge the chunk at key a shares with the one at key b
\* that follows it, paired: the last column with the first, or the last row
\* with the first
SharedEdge(a, b) ==
    IF b[1] = a[1] + 1
    THEN {<<<<CHUNK_SEGMENTS, j>>, <<0, j>>>> : j \in 0..CHUNK_SEGMENTS}
    ELSE {<<<<j, CHUNK_SEGMENTS>>, <<j, 0>>>> : j \in 0..CHUNK_SEGMENTS}

\* C30: for any two adjacent chunks of the store the vertices of the shared
\* edge are at the same world (x, z) and have the same height, and the
\* height of every vertex is getTerrainHeight at the vertex's place in the
\* world.
C30_Seamless ==
    (probe # NULL /\ "heights" \in DOMAIN probe) =>
        /\ \A a \in DOMAIN chunks, b \in DOMAIN chunks :
              Adjacent(a, b) =>
                 \A e \in SharedEdge(a, b) :
                    /\ VertexWorld(chunks[a].worldPos, e[1])
                          = VertexWorld(chunks[b].worldPos, e[2])
                    /\ probe.heights[a][e[1]] = probe.heights[b][e[2]]
        /\ \A a \in DOMAIN chunks, v \in Grid :
              LET p == VertexWorld(chunks[a].worldPos, v)
              IN  probe.heights[a][v] = getTerrainHeight(p[1], p[2], noise2D).height

\* chunks that follow each other along x and along z are built, and the
\* heights along each shared edge are not all the same
C30_Witness ==
    /\ probe # NULL /\ "heights" \in DOMAIN probe
    /\ \E a \in DOMAIN chunks, b \in DOMAIN chunks, c \in DOMAIN chunks :
          /\ b = Key(a[1] + 1, a[2]) /\ c = Key(a[1], a[2] + 1)
          /\ probe.heights[a][<<CHUNK_SEGMENTS, 0>>]
                # probe.heights[a][<<CHUNK_SEGMENTS, CHUNK_SEGMENTS>>]
          /\ probe.heights[a][<<0, CHUNK_SEGMENTS>>]
                # probe.heights[a][<<0, 0>>]

(* ------------------------ claims: what is covered ---------------------- *)

\* lines 83 and 104-105: the mesh of a chunk is a plane of side CHUNK_SIZE
\* whose middle is put at the chunk's worldPos; (x, z) lies on it
MeshCovers(chunk, x, z) ==
    /\ 2 * chunk.worldPos.x - CHUNK_SIZE <= 2 * x
    /\ 2 * x <= 2 * chunk.worldPos.x + CHUNK_SIZE
    /\ 2 * chunk.worldPos.z - CHUNK_SIZE <= 2 * z
    /\ 2 * z <= 2 * chunk.worldPos.z + CHUNK_SIZE

\* the offsets from the viewer at which the cover is looked at: the viewer's
\* own place and the rim of the load distance
ViewOffsets == {-TERRAIN_LOAD_DISTANCE, 0, TERRAIN_LOAD_DISTANCE}

\* C26: after every tick every world position within TERRAIN_LOAD_DISTANCE of
\* the viewer in x and in z lies on the terrain mesh of a chunk of the store.
C26_ViewCovered ==
    last.op \in TickOps =>
        \A ox \in ViewOffsets, oz \in ViewOffsets :
            \E k \in DOMAIN chunks :
                MeshCovers(chunks[k], playerPosition.x + ox, playerPosition.z + oz)

(* -------------------------- claims: the jump --------------------------- *)

\* C31: a frame starts a jump only if Space has been released since the
\* last jump started: holding Space across a landing starts no second jump.
C31_JumpNeedsRelease ==
    [][(last'.op = "update" /\ probe'.jumped) => probe.spaceReleased]_vars

=============================================================================
